---- MODULE Spec2Model ----
(***************************************************************************)
(* Model of the Web Audio backend of firewheel-web-audio                   *)
(* (src/src/backend.rs): the control-side WebAudioBackend, the detached    *)
(* asynchronous worklet bootstrap, the mpsc handoff channel, the shared    *)
(* liveness flag and the leaked sample buffers, together with the render   *)
(* side ProcessorHost that the backend constructs.                         *)
(*                                                                         *)
(* Threads: the control thread runs start_stream, set_processor,           *)
(* poll_status and Drop; the bootstrap future is scheduled cooperatively   *)
(* on that same thread (spawn_local), so it never runs in the middle of    *)
(* another control-thread call; the render thread runs the callback of     *)
(* the ProcessorHost and interleaves freely with everything else.          *)
(***************************************************************************)
EXTENDS Integers, Sequences, FiniteSets, TLC

\* ---------------------------------------------------------------- bounds
\* Number of distinct FirewheelProcessor values the control thread may build.
MaxProcs == 2
\* crate::BLOCK_FRAMES, scaled down (frames per render callback).
BLOCK_FRAMES == 1

\* ------------------------------------------------------------- constants
inputs == 0
outputs == 2

Procs == 1..MaxProcs
\* 0 stands for Option::None wherever a processor may be absent.
NoProc == 0
\* Sample values a processor may write; 0 is silence (0f32).
Samples == {0, 1}
\* Sample rates the platform may negotiate; NoRate is config.sample_rate = None.
NoRate == 0
Rates == {44100, 48000}
\* Values of config.sample_rate the caller may pass.
RequestedRates == {NoRate, 48000}

VARIABLES
    \* --- result of start_stream
    startResult,      \* "none" | "Ok" | "Initialization"
    info,             \* the StreamInfo returned, << >> when none
    config,           \* the sample rate requested of start_stream (NoRate = None)
    \* --- WebAudioBackend fields
    is_dropped,       \* self.is_dropped
    alive,            \* the shared AtomicBool
    web_context,      \* "none" | "running" | "closed"  (state of the AudioContext)
    processor_node,   \* "None" | "Some"  (Rc<RefCell<Option<AudioWorkletNode>>>)
    backend,          \* "none" | "live" | "drop_disconnect" | "drop_close" | "released"
    \* --- mpsc channel
    queue,            \* values sent and not yet received
    receiver,         \* TRUE while the Receiver exists
    sender,           \* TRUE while the Sender exists
    \* --- ProcessorHost
    host,             \* "none" | "packed" | "transferred" | "dropped"
    host_processor,   \* ProcessorHost.processor (NoProc = None)
    input_buffers,    \* ProcessorHost.input_buffers
    output_buffers,   \* ProcessorHost.output_buffers
    renderPc,         \* "idle" | "in_callback"
    \* --- bootstrap future and platform node
    bootstrap,        \* "none" | "pending" | "awaiting" | "done" | "failed"
    platNode,         \* "none" | "created" | "connected" | "disconnected"
    \* --- processors the control thread still owns
    ctlProcs,
    \* --- history
    lastOp,           \* name of the last operation that ran
    devices,          \* device list the last operation returned (<< >> when it returns none)
    pollResult,       \* value returned by the last poll_status
    accepted,         \* processors passed to set_processor while the receiver existed
    sendFailed,       \* some set_processor call ran while the receiver was gone
    installBoot,      \* state of the bootstrap when the first processor was accepted
    received,         \* processors returned by successful try_recv calls, in order
    teardown,         \* platform/flag events performed by Drop, in order
    logged            \* error messages logged

backendVars == <<is_dropped, alive, web_context, processor_node, backend>>
chanVars == <<queue, receiver, sender>>
hostVars == <<host, host_processor, input_buffers, output_buffers, renderPc>>
bootVars == <<bootstrap, platNode>>
histVars == <<lastOp, devices, pollResult, accepted, sendFailed, installBoot, received, teardown, logged>>
vars == <<startResult, info, config, backendVars, chanVars, hostVars, bootVars, ctlProcs, histVars>>

\* ------------------------------------------------------------ start_stream

\* Variant: the Vec is reserved but never filled.
create_buffer_unfilled(len) == << >>

\* create_buffer(len): a leaked Vec of len zeros.
create_buffer(len) == [i \in 1..len |-> 0]

\* The StreamInfo built at the end of start_stream from the context's rate.
StreamInfo(sample_rate) ==
    [sample_rate |-> sample_rate,
     max_block_frames |-> BLOCK_FRAMES,
     num_stream_in_channels |-> inputs,
     num_stream_out_channels |-> outputs]

Init ==
    /\ startResult = "none"
    /\ info = << >>
    /\ config = NoRate
    /\ is_dropped = FALSE
    /\ alive = FALSE
    /\ web_context = "none"
    /\ processor_node = "None"
    /\ backend = "none"
    /\ queue = << >>
    /\ receiver = FALSE
    /\ sender = FALSE
    /\ host = "none"
    /\ host_processor = NoProc
    /\ input_buffers = << >>
    /\ output_buffers = << >>
    /\ renderPc = "idle"
    /\ bootstrap = "none"
    /\ platNode = "none"
    /\ ctlProcs = Procs
    /\ lastOp = "none"
    /\ devices = << >>
    /\ pollResult = "none"
    /\ accepted = << >>
    /\ sendFailed = FALSE
    /\ installBoot = "none"
    /\ received = << >>
    /\ teardown = << >>
    /\ logged = {}

\* Variant: the stream reports the rate that was asked for.
context_sample_rate_requested(requested, negotiated) ==
    IF requested # NoRate THEN requested ELSE negotiated

\* context.sample_rate(): the rate of the context the platform created,
\* whatever rate the options asked for.
context_sample_rate(requested, negotiated) == negotiated

\* `sample_rate as u32`: a saturating cast. Rates are whole numbers of Hz;
\* the upper saturation point, 2^32 - 1, lies beyond every rate of the model.
f32_as_u32(x) == IF x < 0 THEN 0 ELSE x

\* Variant: the buffers, the host and the bootstrap task are set up before
\* the context is created, so a failed creation leaves them behind.
StartStream_eager(requested, ctxOk, negotiated) ==
    /\ startResult = "none"
    /\ lastOp' = "start_stream"
    /\ devices' = << >>
    /\ config' = requested
    /\ startResult' = IF ctxOk THEN "Ok" ELSE "Initialization"
    /\ info' = IF ctxOk THEN StreamInfo(f32_as_u32(context_sample_rate(requested, negotiated)))
                        ELSE info
    /\ queue' = << >>
    /\ receiver' = TRUE
    /\ sender' = ctxOk
    /\ web_context' = IF ctxOk THEN "running" ELSE web_context
    /\ alive' = TRUE
    /\ host' = "packed"
    /\ host_processor' = NoProc
    /\ input_buffers' = create_buffer(inputs * BLOCK_FRAMES)
    /\ output_buffers' = create_buffer(outputs * BLOCK_FRAMES)
    /\ processor_node' = "None"
    /\ bootstrap' = "pending"
    /\ is_dropped' = FALSE
    /\ backend' = IF ctxOk THEN "live" ELSE backend
    /\ UNCHANGED <<renderPc, platNode>>
    /\ UNCHANGED <<ctlProcs, pollResult, accepted, sendFailed, installBoot, received, teardown, logged>>

\* start_stream(config): requested is config.sample_rate, ctxOk whether the
\* platform created the AudioContext, negotiated the rate the context reports.
StartStream(requested, ctxOk, negotiated) ==
    /\ startResult = "none"
    /\ lastOp' = "start_stream"
    /\ devices' = << >>
    /\ config' = requested
    /\ IF ~ctxOk
       THEN /\ startResult' = "Initialization"
            /\ UNCHANGED <<info, backendVars, chanVars, hostVars, bootVars>>
       ELSE /\ startResult' = "Ok"
            /\ info' = StreamInfo(f32_as_u32(context_sample_rate(requested, negotiated)))
            /\ queue' = << >>
            /\ receiver' = TRUE
            /\ sender' = TRUE
            /\ web_context' = "running"
            /\ alive' = TRUE
            /\ host' = "packed"
            /\ host_processor' = NoProc
            /\ input_buffers' = create_buffer(inputs * BLOCK_FRAMES)
            /\ output_buffers' = create_buffer(outputs * BLOCK_FRAMES)
            /\ processor_node' = "None"
            /\ bootstrap' = "pending"
            /\ is_dropped' = FALSE
            /\ backend' = "live"
            /\ UNCHANGED <<renderPc, platNode>>
    /\ UNCHANGED <<ctlProcs, pollResult, accepted, sendFailed, installBoot, received, teardown, logged>>

\* ----------------------------------------------------- device enumeration

\* available_input_devices()
available_input_devices == << >>

\* Variant: the device reports the stream's negotiated channel count.
available_output_devices_stream ==
    << [name |-> "default output",
        num_channels |-> IF startResult = "Ok" THEN info.num_stream_out_channels ELSE 0,
        is_default |-> TRUE] >>

\* available_output_devices()
available_output_devices ==
    << [name |-> "default output", num_channels |-> 2, is_default |-> TRUE] >>

\* The enumerations are associated functions: callable in every state, with
\* or without a backend, and without effect on any of it.
AvailableInputDevices ==
    /\ lastOp' = "available_input_devices"
    /\ devices' = available_input_devices
    /\ UNCHANGED <<startResult, info, config, backendVars, chanVars, hostVars, bootVars, ctlProcs,
                   pollResult, accepted, sendFailed, installBoot, received, teardown, logged>>

AvailableOutputDevices ==
    /\ lastOp' = "available_output_devices"
    /\ devices' = available_output_devices
    /\ UNCHANGED <<startResult, info, config, backendVars, chanVars, hostVars, bootVars, ctlProcs,
                   pollResult, accepted, sendFailed, installBoot, received, teardown, logged>>

\* --------------------------------------------------- set_processor / poll

\* mpsc::Sender::send fails exactly when the Receiver has been dropped.
send_is_err == ~receiver

\* Variant: a single slot that keeps only the latest value.
send_overwrite(q, p) == <<p>>

\* A successful send appends the value to the channel's FIFO queue.
send(q, p) == Append(q, p)

\* Variant: the failure of the send is ignored.
set_processor_ignore(failed) == is_dropped

\* self.is_dropped after set_processor, given whether the send failed.
set_processor_flag(failed) == IF failed THEN TRUE ELSE is_dropped

\* Variant: the control thread keeps the processor it has sent.
SetProcessor_keep(p) ==
    /\ backend = "live"
    /\ p \in ctlProcs
    /\ p \notin {queue[i] : i \in DOMAIN queue} \cup {host_processor}
    /\ ctlProcs' = ctlProcs
    /\ is_dropped' = set_processor_flag(send_is_err)
    /\ queue' = IF send_is_err THEN queue ELSE send(queue, p)
    /\ lastOp' = "set_processor"
    /\ devices' = << >>
    /\ accepted' = IF receiver THEN Append(accepted, p) ELSE accepted
    /\ sendFailed' = (sendFailed \/ ~receiver)
    /\ installBoot' = IF receiver /\ accepted = << >> THEN bootstrap ELSE installBoot
    /\ UNCHANGED <<startResult, info, config, alive, web_context, processor_node, backend,
                   receiver, sender, hostVars, bootVars,
                   pollResult, received, teardown, logged>>

\* Variant: a processor installed before the node exists is discarded.
SetProcessor_gated(p) ==
    /\ backend = "live"
    /\ p \in ctlProcs
    /\ ctlProcs' = ctlProcs \ {p}
    /\ is_dropped' = set_processor_flag(send_is_err)
    /\ queue' = IF send_is_err \/ processor_node = "None" THEN queue ELSE send(queue, p)
    /\ lastOp' = "set_processor"
    /\ devices' = << >>
    /\ accepted' = IF receiver THEN Append(accepted, p) ELSE accepted
    /\ sendFailed' = (sendFailed \/ ~receiver)
    /\ installBoot' = IF receiver /\ accepted = << >> THEN bootstrap ELSE installBoot
    /\ UNCHANGED <<startResult, info, config, alive, web_context, processor_node, backend,
                   receiver, sender, hostVars, bootVars,
                   pollResult, received, teardown, logged>>

\* set_processor(processor): the processor leaves the control thread; it is
\* queued when the send succeeds and dropped with the SendError otherwise.
SetProcessor(p) ==
    /\ backend = "live"
    /\ p \in ctlProcs
    /\ ctlProcs' = ctlProcs \ {p}
    /\ is_dropped' = set_processor_flag(send_is_err)
    /\ queue' = IF send_is_err THEN queue ELSE send(queue, p)
    /\ lastOp' = "set_processor"
    /\ devices' = << >>
    /\ accepted' = IF receiver THEN Append(accepted, p) ELSE accepted
    /\ sendFailed' = (sendFailed \/ ~receiver)
    /\ installBoot' = IF receiver /\ accepted = << >> THEN bootstrap ELSE installBoot
    /\ UNCHANGED <<startResult, info, config, alive, web_context, processor_node, backend,
                   receiver, sender, hostVars, bootVars,
                   pollResult, received, teardown, logged>>

\* Variant: a stream whose node is not there yet is reported as dropped.
poll_status_eager == IF is_dropped \/ processor_node = "None" THEN "UnexpectedDrop" ELSE "Ok"

\* The value poll_status returns in the current state.
poll_status == IF is_dropped THEN "UnexpectedDrop" ELSE "Ok"

PollStatus ==
    /\ backend = "live"
    /\ pollResult' = poll_status
    /\ lastOp' = "poll_status"
    /\ devices' = << >>
    /\ UNCHANGED <<startResult, info, config, backendVars, chanVars, hostVars, bootVars, ctlProcs,
                   accepted, sendFailed, installBoot, received, teardown, logged>>

\* ------------------------------------------------------------------- Drop

\* Variant: release can be entered again after it has completed.
DropMarkDead_again ==
    /\ backend \in {"live", "released"}
    /\ alive' = FALSE
    /\ backend' = "drop_disconnect"
    /\ teardown' = Append(teardown, "mark_dead")
    /\ lastOp' = "drop"
    /\ devices' = << >>
    /\ UNCHANGED <<startResult, info, config, is_dropped, web_context, processor_node,
                   chanVars, hostVars, bootVars, ctlProcs,
                   pollResult, accepted, sendFailed, installBoot, received, logged>>

\* Variant: release waits until no render callback is running.
DropMarkDead_wait ==
    /\ backend = "live"
    /\ renderPc = "idle"
    /\ alive' = FALSE
    /\ backend' = "drop_disconnect"
    /\ teardown' = Append(teardown, "mark_dead")
    /\ lastOp' = "drop"
    /\ devices' = << >>
    /\ UNCHANGED <<startResult, info, config, is_dropped, web_context, processor_node,
                   chanVars, hostVars, bootVars, ctlProcs,
                   pollResult, accepted, sendFailed, installBoot, received, logged>>

\* self.alive.store(false, Relaxed)
DropMarkDead ==
    /\ backend = "live"
    /\ alive' = FALSE
    /\ backend' = "drop_disconnect"
    /\ teardown' = Append(teardown, "mark_dead")
    /\ lastOp' = "drop"
    /\ devices' = << >>
    /\ UNCHANGED <<startResult, info, config, is_dropped, web_context, processor_node,
                   chanVars, hostVars, bootVars, ctlProcs,
                   pollResult, accepted, sendFailed, installBoot, received, logged>>

\* Variant: a disconnect error ends the release early.
DropDisconnect_bail(ok) ==
    /\ backend = "drop_disconnect"
    /\ backend' = IF processor_node = "Some" /\ ~ok THEN "released" ELSE "drop_close"
    /\ IF processor_node = "Some"
       THEN /\ teardown' = Append(teardown, "disconnect")
            /\ platNode' = IF ok THEN "disconnected" ELSE platNode
            /\ logged' = IF ok THEN logged ELSE logged \cup {"disconnect"}
       ELSE UNCHANGED <<teardown, platNode, logged>>
    /\ lastOp' = "drop"
    /\ devices' = << >>
    /\ UNCHANGED <<startResult, info, config, is_dropped, alive, web_context, processor_node,
                   chanVars, hostVars, bootstrap, ctlProcs,
                   pollResult, accepted, sendFailed, installBoot, received>>

\* if let Some(node) = processor_node { node.disconnect() logged on error }
DropDisconnect(ok) ==
    /\ backend = "drop_disconnect"
    /\ backend' = "drop_close"
    /\ IF processor_node = "Some"
       THEN /\ teardown' = Append(teardown, "disconnect")
            /\ platNode' = IF ok THEN "disconnected" ELSE platNode
            /\ logged' = IF ok THEN logged ELSE logged \cup {"disconnect"}
       ELSE UNCHANGED <<teardown, platNode, logged>>
    /\ lastOp' = "drop"
    /\ devices' = << >>
    /\ UNCHANGED <<startResult, info, config, is_dropped, alive, web_context, processor_node,
                   chanVars, hostVars, bootstrap, ctlProcs,
                   pollResult, accepted, sendFailed, installBoot, received>>

\* Variant: release clears the shared output region.
DropClose_clear(ok) ==
    /\ backend = "drop_close"
    /\ backend' = "released"
    /\ teardown' = Append(teardown, "close")
    /\ web_context' = IF ok THEN "closed" ELSE web_context
    /\ logged' = IF ok THEN logged ELSE logged \cup {"close"}
    /\ sender' = FALSE
    /\ output_buffers' = [i \in DOMAIN output_buffers |-> 0]
    /\ lastOp' = "drop"
    /\ devices' = << >>
    /\ UNCHANGED <<startResult, info, config, is_dropped, alive, processor_node,
                   queue, receiver, host, host_processor, input_buffers, renderPc,
                   bootVars, ctlProcs,
                   pollResult, accepted, sendFailed, installBoot, received>>

\* Variant: release frees the buffers instead of leaving them leaked.
DropClose_free(ok) ==
    /\ backend = "drop_close"
    /\ backend' = "released"
    /\ teardown' = Append(teardown, "close")
    /\ web_context' = IF ok THEN "closed" ELSE web_context
    /\ logged' = IF ok THEN logged ELSE logged \cup {"close"}
    /\ sender' = FALSE
    /\ input_buffers' = << >>
    /\ output_buffers' = << >>
    /\ lastOp' = "drop"
    /\ devices' = << >>
    /\ UNCHANGED <<startResult, info, config, is_dropped, alive, processor_node,
                   queue, receiver, host, host_processor, renderPc,
                   bootVars, ctlProcs,
                   pollResult, accepted, sendFailed, installBoot, received>>

\* self.web_context.close() logged on error; then the fields are dropped,
\* the Sender among them.
DropClose(ok) ==
    /\ backend = "drop_close"
    /\ backend' = "released"
    /\ teardown' = Append(teardown, "close")
    /\ web_context' = IF ok THEN "closed" ELSE web_context
    /\ logged' = IF ok THEN logged ELSE logged \cup {"close"}
    /\ sender' = FALSE
    /\ lastOp' = "drop"
    /\ devices' = << >>
    /\ UNCHANGED <<startResult, info, config, is_dropped, alive, processor_node,
                   queue, receiver, hostVars, bootVars, ctlProcs,
                   pollResult, accepted, sendFailed, installBoot, received>>

\* -------------------------------------------------------------- bootstrap

\* The control thread is between calls, so a spawn_local task may run.
ControlThreadFree == backend \in {"live", "released"}

\* First poll of prepare_worklet: module URL, audio_worklet(), add_module().
BootstrapStart(ok) ==
    /\ bootstrap = "pending"
    /\ ControlThreadFree
    /\ IF ok
       THEN /\ bootstrap' = "awaiting"
            /\ UNCHANGED logged
       ELSE /\ bootstrap' = "failed"
            /\ logged' = logged \cup {"worklet"}
    /\ lastOp' = "bootstrap"
    /\ devices' = << >>
    /\ UNCHANGED <<startResult, info, config, backendVars, chanVars, hostVars, platNode, ctlProcs,
                   pollResult, accepted, sendFailed, installBoot, received, teardown>>

BootOutcomes == {"load_err", "node_err", "connect_err", "ok"}

\* Variant: a completed bootstrap marks the stream alive.
BootstrapResume_revive(outcome) ==
    /\ bootstrap = "awaiting"
    /\ ControlThreadFree
    /\ bootstrap' = IF outcome = "ok" THEN "done" ELSE "failed"
    /\ logged' = IF outcome = "ok" THEN logged ELSE logged \cup {"worklet"}
    /\ host' = IF outcome \in {"connect_err", "ok"} THEN "transferred" ELSE host
    /\ platNode' = CASE outcome = "ok" -> "connected"
                     [] outcome = "connect_err" -> "created"
                     [] OTHER -> platNode
    /\ processor_node' = IF outcome = "ok" THEN "Some" ELSE processor_node
    /\ alive' = IF outcome = "ok" THEN TRUE ELSE alive
    /\ lastOp' = "bootstrap"
    /\ devices' = << >>
    /\ UNCHANGED <<startResult, info, config, is_dropped, web_context, backend,
                   chanVars, host_processor, input_buffers, output_buffers, renderPc,
                   ctlProcs, pollResult, accepted, sendFailed, installBoot, received, teardown>>

\* The add_module promise settles; on success the node is constructed with
\* the packed host, connected to the destination and stored.
BootstrapResume(outcome) ==
    /\ bootstrap = "awaiting"
    /\ ControlThreadFree
    /\ bootstrap' = IF outcome = "ok" THEN "done" ELSE "failed"
    /\ logged' = IF outcome = "ok" THEN logged ELSE logged \cup {"worklet"}
    /\ host' = IF outcome \in {"connect_err", "ok"} THEN "transferred" ELSE host
    /\ platNode' = CASE outcome = "ok" -> "connected"
                     [] outcome = "connect_err" -> "created"
                     [] OTHER -> platNode
    /\ processor_node' = IF outcome = "ok" THEN "Some" ELSE processor_node
    /\ lastOp' = "bootstrap"
    /\ devices' = << >>
    /\ UNCHANGED <<startResult, info, config, is_dropped, alive, web_context, backend,
                   chanVars, host_processor, input_buffers, output_buffers, renderPc,
                   ctlProcs, pollResult, accepted, sendFailed, installBoot, received, teardown>>

\* ------------------------------------------------------------ render side

\* Variant: the host polls the channel on every callback and takes whatever
\* arrives, replacing the processor it holds.
RenderBegin_replace ==
    /\ host = "transferred"
    /\ renderPc = "idle"
    /\ web_context = "running"
    /\ renderPc' = "in_callback"
    /\ IF queue # << >>
       THEN /\ host_processor' = Head(queue)
            /\ queue' = Tail(queue)
            /\ received' = Append(received, Head(queue))
       ELSE UNCHANGED <<host_processor, queue, received>>
    /\ lastOp' = "render_begin"
    /\ devices' = << >>
    /\ UNCHANGED <<startResult, info, config, backendVars, receiver, sender,
                   host, input_buffers, output_buffers, bootVars, ctlProcs,
                   pollResult, accepted, sendFailed, installBoot, teardown, logged>>

\* The platform invokes the callback: while no processor is held the host
\* polls the channel once (try_recv never blocks).
RenderBegin ==
    /\ host = "transferred"
    /\ renderPc = "idle"
    /\ web_context = "running"
    /\ renderPc' = "in_callback"
    /\ IF host_processor = NoProc /\ queue # << >>
       THEN /\ host_processor' = Head(queue)
            /\ queue' = Tail(queue)
            /\ received' = Append(received, Head(queue))
       ELSE UNCHANGED <<host_processor, queue, received>>
    /\ lastOp' = "render_begin"
    /\ devices' = << >>
    /\ UNCHANGED <<startResult, info, config, backendVars, receiver, sender,
                   host, input_buffers, output_buffers, bootVars, ctlProcs,
                   pollResult, accepted, sendFailed, installBoot, teardown, logged>>

\* The callback finishes: silence while no processor is held, otherwise the
\* processor fills the output region with the block it computed.
RenderEnd(block) ==
    /\ renderPc = "in_callback"
    /\ renderPc' = "idle"
    /\ output_buffers' = IF host_processor = NoProc
                         THEN [i \in DOMAIN output_buffers |-> 0]
                         ELSE block
    /\ lastOp' = IF host_processor = NoProc THEN "render_silent" ELSE "render_process"
    /\ devices' = << >>
    /\ UNCHANGED <<startResult, info, config, backendVars, chanVars,
                   host, host_processor, input_buffers, bootVars, ctlProcs,
                   pollResult, accepted, sendFailed, installBoot, received, teardown, logged>>

\* The render side goes away: the platform discards a transferred host, or a
\* host that never reached the platform is dropped.  The Receiver and every
\* value still queued go with it; the leaked buffers stay.
HostDropped ==
    /\ renderPc = "idle"
    /\ \/ host = "transferred"
       \/ host = "packed" /\ bootstrap = "failed"
    /\ host' = "dropped"
    /\ receiver' = FALSE
    /\ queue' = << >>
    /\ host_processor' = NoProc
    /\ lastOp' = "host_dropped"
    /\ devices' = << >>
    /\ UNCHANGED <<startResult, info, config, backendVars, sender,
                   input_buffers, output_buffers, renderPc, bootVars, ctlProcs,
                   pollResult, accepted, sendFailed, installBoot, received, teardown, logged>>

\* ------------------------------------------------------------------- Next

Blocks == [1..(outputs * BLOCK_FRAMES) -> Samples]

DropDisconnectStep == \E ok \in BOOLEAN : DropDisconnect(ok)
DropCloseStep == \E ok \in BOOLEAN : DropClose(ok)
RenderEndStep ==
    \E block \in IF host_processor = NoProc THEN {<< >>} ELSE Blocks : RenderEnd(block)

Next ==
    \/ \E requested \in RequestedRates, ctxOk \in BOOLEAN, negotiated \in Rates :
          StartStream(requested, ctxOk, negotiated)
    \/ \E p \in Procs : SetProcessor(p)
    \/ PollStatus
    \/ DropMarkDead
    \/ DropDisconnectStep
    \/ DropCloseStep
    \/ \E ok \in BOOLEAN : BootstrapStart(ok)
    \/ \E outcome \in BootOutcomes : BootstrapResume(outcome)
    \/ RenderBegin
    \/ RenderEndStep
    \/ HostDropped

Spec == Init /\ [][Next]_vars

\* The stream together with device enumeration, which may be called at any
\* point of the stream's life.
NextDevices ==
    \/ Next
    \/ AvailableInputDevices
    \/ AvailableOutputDevices

SpecDevices == Init /\ [][NextDevices]_vars

TypeOK ==
    /\ startResult \in {"none", "Ok", "Initialization"}
    /\ is_dropped \in BOOLEAN
    /\ alive \in BOOLEAN
    /\ web_context \in {"none", "running", "closed"}
    /\ processor_node \in {"None", "Some"}
    /\ backend \in {"none", "live", "drop_disconnect", "drop_close", "released"}
    /\ receiver \in BOOLEAN
    /\ sender \in BOOLEAN
    /\ host \in {"none", "packed", "transferred", "dropped"}
    /\ host_processor \in Procs \cup {NoProc}
    /\ renderPc \in {"idle", "in_callback"}
    /\ bootstrap \in {"none", "pending", "awaiting", "done", "failed"}
    /\ platNode \in {"none", "created", "connected", "disconnected"}
    /\ ctlProcs \subseteq Procs
    /\ pollResult \in {"none", "Ok", "UnexpectedDrop"}

\* ------------------------------------------------------------ properties

Count(seq, e) == Cardinality({i \in DOMAIN seq : seq[i] = e})
Zeros(buf) == \A i \in DOMAIN buf : buf[i] = 0

\* C1: at-most-once delivery. Whatever installs and callbacks have run, the
\* render side has received at most one processor, the one it received is the
\* first processor installed, the host holds exactly that one, and it is no
\* longer in the channel nor with the control thread.
AtMostOnceDelivery ==
    /\ Len(received) <= 1
    /\ received # << >> =>
          /\ accepted # << >>
          /\ received[1] = accepted[1]
          /\ received[1] \notin ctlProcs
          /\ \A i \in DOMAIN queue : queue[i] # received[1]
    /\ host_processor # NoProc => received = <<host_processor>>

\* Two processors were installed and one of them was delivered.
DeliveredOnceWitness ==
    /\ Len(accepted) = 2
    /\ Len(received) = 1
    /\ host_processor = accepted[1]
    /\ queue = <<accepted[2]>>

\* C2: dropped install. A set_processor call made while the receiver is gone
\* records the drop, and a poll_status call made after such an install returns
\* UnexpectedDrop.
DroppedInstall ==
    [][ /\ (lastOp' = "set_processor" /\ ~receiver) => is_dropped'
        /\ (lastOp' = "poll_status" /\ sendFailed) => pollResult' = "UnexpectedDrop"
      ]_vars

\* The receiver went away, a processor was installed, and the poll that
\* followed reported the drop.
DroppedInstallWitness ==
    /\ host = "dropped"
    /\ sendFailed
    /\ lastOp = "poll_status"
    /\ pollResult = "UnexpectedDrop"

\* The state poll_status must leave alone.
programVars == <<startResult, info, config, backendVars, chanVars, hostVars, bootVars, ctlProcs>>

\* C3: poll_status returns UnexpectedDrop exactly when an earlier install had
\* its send fail and success otherwise, the dropped condition is never
\* cleared while the backend exists, and poll_status changes no state.
PollStatusExact ==
    [][ /\ lastOp' = "poll_status" =>
              /\ pollResult' = (IF sendFailed THEN "UnexpectedDrop" ELSE "Ok")
              /\ UNCHANGED programVars
        /\ is_dropped => is_dropped'
        /\ (backend = "live" /\ lastOp' # "set_processor") => (is_dropped' = is_dropped)
      ]_vars

\* A poll after a successful install, with the bootstrap not finished,
\* reported success.
PollOkWitness ==
    /\ lastOp = "poll_status"
    /\ pollResult = "Ok"
    /\ accepted # << >>
    /\ processor_node = "None"

\* C4 (as claimed): once the bootstrap has failed, poll_status reports failure.
BootstrapFailureSurfaced ==
    (lastOp = "poll_status" /\ bootstrap = "failed") => pollResult = "UnexpectedDrop"

\* C5: liveness monotonicity. A successful start_stream leaves the flag
\* alive, and once the flag of a started stream is dead no step makes it
\* alive again.
LivenessMonotone ==
    [][ /\ (lastOp' = "start_stream" /\ startResult' = "Ok") => alive'
        /\ (startResult = "Ok" /\ ~alive) => ~alive'
      ]_vars

\* The flag is dead and the bootstrap and the render side ran afterwards.
DeadStaysDeadWitness ==
    /\ startResult = "Ok"
    /\ ~alive
    /\ backend = "released"
    /\ bootstrap = "done"
    /\ lastOp \in {"render_silent", "render_process"}

\* C6: silence before ready. A callback that ends with no processor held
\* leaves the whole output region, outputs * BLOCK_FRAMES samples, at zero,
\* and a callback that holds no processor can always return.
SilenceBeforeReady ==
    /\ lastOp = "render_silent" =>
          /\ Len(output_buffers) = outputs * BLOCK_FRAMES
          /\ Zeros(output_buffers)
    /\ (renderPc = "in_callback" /\ host_processor = NoProc) => ENABLED RenderEndStep

\* A callback ran to its end before any processor was installed.
SilentCallbackWitness ==
    /\ lastOp = "render_silent"
    /\ ctlProcs = Procs
    /\ Len(output_buffers) > 0

\* The events release performs once it has passed the disconnect step.
TeardownPrefix ==
    IF processor_node = "Some" THEN <<"mark_dead", "disconnect">> ELSE <<"mark_dead">>

\* C7: release runs to completion from every state. Each step of it is
\* enabled when reached; it marks the flag dead, then disconnects the node if
\* the backend holds one, then closes the context, whatever the disconnect
\* and close calls return.
ReleaseCompletes ==
    /\ backend = "live" => ENABLED DropMarkDead
    /\ backend = "drop_disconnect" =>
          /\ teardown = <<"mark_dead">>
          /\ ~alive
          /\ ENABLED DropDisconnectStep
    /\ backend = "drop_close" =>
          /\ teardown = TeardownPrefix
          /\ ENABLED DropCloseStep
    /\ backend = "released" =>
          /\ ~alive
          /\ teardown \in {<<"mark_dead", "close">>, <<"mark_dead", "disconnect", "close">>}

\* A release completed although both the disconnect and the close failed.
ReleaseWithErrorsWitness ==
    /\ backend = "released"
    /\ {"disconnect", "close"} \subseteq logged
    /\ teardown = <<"mark_dead", "disconnect", "close">>

\* C8: idempotent teardown. In every state the context has been closed at
\* most once, the node disconnected at most once and the flag marked at most
\* once; a backend that has been released cannot be released again.
IdempotentTeardown ==
    /\ Count(teardown, "close") <= 1
    /\ Count(teardown, "disconnect") <= 1
    /\ Count(teardown, "mark_dead") <= 1
    /\ backend = "released" => ~ENABLED (DropMarkDead \/ DropDisconnectStep \/ DropCloseStep)

\* A release of a stream whose bootstrap failed or never completed.
ReleaseUnbootedWitness ==
    /\ backend = "released"
    /\ bootstrap \in {"pending", "awaiting", "failed"}
    /\ Count(teardown, "close") = 1

\* C9: install is independent of bootstrap ordering. A callback that holds
\* no processor takes the head of the channel when there is one, and if
\* callbacks keep being invoked, a processor accepted by the channel, before
\* or after the bootstrap completed, ends up held by the host.
InstallAnyOrder ==
    /\ [][ (lastOp' = "render_begin" /\ renderPc = "idle"
             /\ host_processor = NoProc /\ accepted # << >> /\ received = << >>)
           => host_processor' = accepted[1] ]_vars
    /\ ([]<><<RenderBegin>>_vars) =>
          ((accepted # << >>) ~> (host_processor # NoProc /\ host_processor = accepted[1]))

\* A processor installed before the bootstrap had started is held by the host.
InstallBeforeBootWitness ==
    /\ installBoot = "pending"
    /\ host_processor # NoProc
    /\ host_processor = accepted[1]

\* C10: no stall. While the backend exists poll_status and release are
\* enabled, and every later step of release is enabled, in every state of the
\* render side.
NoStall ==
    /\ backend = "live" => (ENABLED PollStatus /\ ENABLED DropMarkDead)
    /\ backend = "drop_disconnect" => ENABLED DropDisconnectStep
    /\ backend = "drop_close" => ENABLED DropCloseStep

\* The backend exists while a callback is processing a block.
MidProcessingWitness ==
    /\ backend = "live"
    /\ renderPc = "in_callback"
    /\ host_processor # NoProc

\* C11: a failed context creation. start_stream then returns the
\* Initialization error and nothing of a stream exists, then or later: no
\* backend, no channel, no buffers, no host, no bootstrap task, no context;
\* start_stream never returns WorkletCreation.
NoStreamOnInitError ==
    /\ startResult \in {"none", "Ok", "Initialization"}
    /\ startResult = "Initialization" =>
          /\ backend = "none"
          /\ info = << >>
          /\ input_buffers = << >> /\ output_buffers = << >>
          /\ host = "none"
          /\ bootstrap = "none"
          /\ web_context = "none"
          /\ ~receiver /\ ~sender
          /\ ~alive
          /\ platNode = "none"
          /\ logged = {}

\* start_stream was called with a requested rate and the context creation failed.
InitErrorWitness ==
    /\ startResult = "Initialization"
    /\ config # NoRate
    /\ lastOp = "start_stream"

\* C12: the StreamInfo of a successful start. It is there as soon as
\* start_stream has returned, with the bootstrap still pending, and for the
\* rest of the stream; its rate is one the platform negotiates, not tied to
\* the requested one, its block size is BLOCK_FRAMES and its channel counts
\* are (0, 2).
StreamInfoNegotiated ==
    [][ /\ \A requested \in RequestedRates, negotiated \in Rates :
              StartStream(requested, TRUE, negotiated) =>
                 /\ info'.sample_rate = negotiated
                 /\ bootstrap' = "pending"
        /\ (startResult' = "Ok") =>
              /\ info'.max_block_frames = BLOCK_FRAMES
              /\ info'.num_stream_in_channels = 0
              /\ info'.num_stream_out_channels = 2
              /\ info'.sample_rate \in Rates
              /\ (startResult = "Ok" => info' = info)
      ]_vars

\* start_stream has just returned a rate that differs from the requested one.
RateDiffersWitness ==
    /\ startResult = "Ok"
    /\ lastOp = "start_stream"
    /\ bootstrap = "pending"
    /\ config = 48000
    /\ info.sample_rate = 44100

\* C13: device enumeration is static. Whatever the state of the stream, an
\* enumeration of inputs returns nothing and an enumeration of outputs
\* returns the one default stereo output.
DeviceEnumerationStatic ==
    /\ lastOp = "available_input_devices" => devices = << >>
    /\ lastOp = "available_output_devices" =>
          /\ Len(devices) = 1
          /\ devices[1].name = "default output"
          /\ devices[1].num_channels = 2
          /\ devices[1].is_default

\* The outputs were enumerated after the stream had been released.
EnumerateAfterReleaseWitness ==
    /\ lastOp = "available_output_devices"
    /\ backend = "released"
    /\ Len(devices) = 1

\* C14 (as claimed): the channel never holds more than one processor.
AtMostOneInFlight == Len(queue) <= 1

\* Where a processor is held.
Holders(p) ==
    (IF p \in ctlProcs THEN 1 ELSE 0)
    + Count(queue, p)
    + (IF host_processor = p THEN 1 ELSE 0)

\* C15: the host starts without a processor; while it exists, the processor
\* it holds changes only by a callback's successful receive, from none to the
\* head of the channel, and once present is never replaced nor removed.
HostActivatesOnce ==
    [][ /\ (lastOp' = "start_stream" /\ startResult' = "Ok") => host_processor' = NoProc
        /\ (host' # "dropped" /\ host_processor # NoProc) => host_processor' = host_processor
        /\ (host' # "dropped" /\ host_processor' # host_processor) =>
              /\ lastOp' = "render_begin"
              /\ host_processor = NoProc
              /\ queue # << >>
              /\ host_processor' = Head(queue)
      ]_vars

\* The host kept its processor through a second install and the release.
HostKeepsProcessorWitness ==
    /\ host_processor # NoProc
    /\ Len(accepted) = 2
    /\ backend = "released"
    /\ host = "transferred"

\* C16 (as claimed): every processor is held by exactly one of the control
\* thread, the channel and the host.
ExactlyOneHolder == \A p \in Procs : Holders(p) = 1

\* C16 (amended): every processor is held by at most one of the control
\* thread, the channel and the host, and by exactly one of them as long as
\* no send has failed and the render side has not been torn down.
AtMostOneHolder ==
    /\ \A p \in Procs : Holders(p) <= 1
    /\ (~sendFailed /\ host # "dropped") => \A p \in Procs : Holders(p) = 1

\* Release is under way while a callback runs with the host's processor, the
\* other processor being in the channel.
ReleaseDuringCallbackWitness ==
    /\ backend \in {"drop_disconnect", "drop_close"}
    /\ renderPc = "in_callback"
    /\ host_processor # NoProc
    /\ queue # << >>

\* C17 (as claimed): once release has completed, with neither its disconnect
\* call nor its close call failing, no node of the stream is connected to the
\* output.
NoNodeAfterRelease ==
    (backend = "released" /\ "disconnect" \notin logged /\ "close" \notin logged)
        => platNode # "connected"

\* C18: single-writer discipline. The liveness flag changes only in
\* start_stream and in release; the buffers change only in start_stream and
\* in render callbacks.
SingleWriter ==
    [][ /\ alive' # alive => lastOp' \in {"start_stream", "drop"}
        /\ (lastOp' \in {"set_processor", "poll_status", "bootstrap",
                         "render_begin", "render_silent", "render_process"})
              => alive' = alive
        /\ (input_buffers' # input_buffers \/ output_buffers' # output_buffers)
              => lastOp' \in {"start_stream", "render_silent", "render_process"}
        /\ (lastOp' \in {"set_processor", "poll_status", "drop", "bootstrap"})
              => (input_buffers' = input_buffers /\ output_buffers' = output_buffers)
      ]_vars

\* Release completed and left behind the block the processor last wrote.
BuffersSurviveReleaseWitness ==
    /\ backend = "released"
    /\ lastOp = "drop"
    /\ ~Zeros(output_buffers)

\* C19: the buffer pool. A successful start_stream leaves both regions
\* zero-filled; from then on the input region has inputs * BLOCK_FRAMES = 0
\* samples and the output region outputs * BLOCK_FRAMES = 2 * BLOCK_FRAMES,
\* also after release and after the render side is gone.
BufferPoolFixed ==
    /\ startResult = "Ok" =>
          /\ Len(input_buffers) = inputs * BLOCK_FRAMES
          /\ Len(input_buffers) = 0
          /\ Len(output_buffers) = outputs * BLOCK_FRAMES
          /\ Len(output_buffers) = 2 * BLOCK_FRAMES
          /\ \A i \in DOMAIN output_buffers : output_buffers[i] \in Samples
    /\ (startResult = "Ok" /\ lastOp = "start_stream") =>
          (Zeros(input_buffers) /\ Zeros(output_buffers))

\* The buffers are still there, written, with the backend released and the
\* host dropped.
PoolOutlivesStreamWitness ==
    /\ backend = "released"
    /\ host = "dropped"
    /\ Len(output_buffers) = 2 * BLOCK_FRAMES
    /\ ~Zeros(output_buffers)
====
